---- MODULE Spec2Model ----
(***************************************************************************)
(* A model of sanic_restplus/api.py: the Api object's registries (error    *)
(* handlers, representations, endpoints), content negotiation              *)
(* (make_response), error resolution (handle_error), the ownership test    *)
(* (_dummy_router_get, _should_use_fr_error_handler, _has_fr_route) and    *)
(* the error hook installed on the application (ApiErrorHandler.response). *)
(*                                                                         *)
(* Python values are modelled as follows.                                  *)
(*   - None is the string "None".                                          *)
(*   - A dict body with optional keys 'message' and 'detail' is a record   *)
(*     [message, detail]; a key that is missing has the value Absent.      *)
(*   - A header mapping is the set of its header names; Content-Type is    *)
(*     kept apart as the field content_type of a response.                 *)
(*   - An endpoint name is a pair <<base, n>>: <<"foo", 1>> is 'foo' and   *)
(*     <<"foo", 2>> is 'foo_2'.                                            *)
(***************************************************************************)
EXTENDS Integers, Sequences, FiniteSets, TLC

None == "None"
Absent == "<absent>"

ApiIds == {"A", "B"}

-----------------------------------------------------------------------------
(* Exceptions *)

\* The exception classes of the model: those api.py imports, the built-in
\* ones it can raise, and two user classes (SubError derives CustomError).
ExcParent(c) ==
  CASE c = "ParseError" -> "MaskError"
    [] c \in {"NotFound", "InvalidUsage", "ServerError"} -> "SanicException"
    [] c = "SubError" -> "CustomError"
    [] OTHER -> "Exception"

\* isinstance(e, SanicException)
IsSanicException(c) == c = "SanicException" \/ ExcParent(c) = "SanicException"

\* sanic.response COMMON_STATUS_CODES / ALL_STATUS_CODES, decoded.
StatusPhrase(code) ==
  CASE code = 400 -> "Bad Request"
    [] code = 401 -> "Unauthorized"
    [] code = 404 -> "Not Found"
    [] code = 405 -> "Method Not Allowed"
    [] code = 406 -> "Not Acceptable"
    [] code = 500 -> "Internal Server Error"
    [] OTHER -> None

Body(message, detail) == [message |-> message, detail |-> detail]
NoBody == Body(Absent, Absent)

\* An exception object: its class, status_code (SanicException only, else 0),
\* str(e), its 'message' attribute (Absent when it has none) and its 'data'
\* attribute (has_data says whether it has one).
Exc(cls, code, text, message, has_data, data) ==
  [cls |-> cls, status_code |-> code, text |-> text, message |-> message,
   has_data |-> has_data, data |-> data]
NoExc == Exc(None, 0, "", Absent, FALSE, NoBody)
PlainExc(cls, code, text) == Exc(cls, code, text, Absent, FALSE, NoBody)

\* The two exceptions make_response raises.
NotAcceptable == PlainExc("SanicException", 406, "Not Acceptable")
ServerErrorNone == PlainExc("ServerError", 500, "None")

-----------------------------------------------------------------------------
(* Handler results and unpack *)

HEADERS_BLACKLIST == {"Content-Length"}

\* What a resource or an error handler returns: data alone ("bare"), or a
\* tuple of 1, 2 or 3 values ("t1", "t2", "t3"); code 0 stands for a falsy code.
Raw(shape, data, code, headers) ==
  [shape |-> shape, data |-> data, code |-> code, headers |-> headers]

\* utils.unpack(response, default_code)
unpack(response, default_code) ==
  CASE response.shape \in {"bare", "t1"} ->
         [data |-> response.data, code |-> default_code, headers |-> {}]
    [] response.shape = "t2" ->
         [data |-> response.data, code |-> response.code, headers |-> {}]
    [] OTHER ->
         [data |-> response.data,
          code |-> IF response.code = 0 THEN default_code ELSE response.code,
          headers |-> response.headers]

\* The error handlers of the model: mask_parse_error_handler,
\* mask_error_handler and the user's h_conflict, h_nomsg, h_401, h_404, h_bare
\* and h_raise.  Each is a function of the error; a handler either raises or
\* returns a Raw value.
HandlerRaises(h) == h = "h_raise"

HandlerResult(h, e) ==
  CASE h = "mask_parse_error_handler" ->
         Raw("t2", Body("Mask parse error: " \o e.text, Absent), 400, {})
    [] h = "mask_error_handler" ->
         Raw("t2", Body("Mask error: " \o e.text, Absent), 400, {})
    [] h = "h_conflict" ->
         Raw("t3", Body("conflict", "d"), 409, {"Content-Length", "X-Custom"})
    [] h = "h_nomsg" -> Raw("t2", Body(Absent, "d"), 400, {})
    [] h = "h_401" -> Raw("t2", Body("auth", Absent), 401, {})
    [] h = "h_404" -> Raw("t2", Body(Absent, "gone"), 404, {})
    [] OTHER -> Raw("bare", Body("bare", Absent), 0, {})

-----------------------------------------------------------------------------
(* State *)

VARIABLES
  app,                    \* app[a]: Api a has an application (self.app is not None)
  endpoints,              \* endpoints[a]: self.endpoints
  resources,              \* resources[a]: self.resources, registrations waiting for an app
  error_handlers,         \* error_handlers[a][cls]: the handler registered for cls, or None
  default_error_handler,  \* default_error_handler[a]: self._default_error_handler
  representations,        \* representations[a]: the OrderedDict, a sequence of [mediatype, fn]
  default_mediatype,      \* default_mediatype[a]
  catch_all_404s,         \* catch_all_404s[a]
  serve_challenge_on_401, \* serve_challenge_on_401[a]
  routes_static,          \* app.router.routes_static: the static routes
  routes_dynamic,         \* app.router.routes_dynamic: the hashed regex routes, in order
  routes_always_check,    \* app.router.routes_always_check
  error_handler,          \* app.error_handler: the Apis whose ApiErrorHandler wraps the
                          \* host's handler, innermost first
  ERROR_404_HELP,         \* app.config: "unset", "True" or "False"
  last,                   \* the request being answered and what the client gets
                          \* for it; NoLast while the application is idle
  tasks,                  \* tasks[s]: the request the event loop holds in slot s
                          \* and the coroutine its wrapper awaits
  namespaces,             \* namespaces[a]: self.namespaces after the default one
  ns_paths,               \* ns_paths[a][n]: self.ns_paths, None when n is no key
  ns                      \* ns[n]: the Namespace object n

apivars == <<app, endpoints, resources, error_handlers, default_error_handler,
             representations, default_mediatype, catch_all_404s,
             serve_challenge_on_401>>
appvars == <<routes_static, routes_dynamic, routes_always_check, error_handler,
             ERROR_404_HELP>>
nsvars == <<namespaces, ns_paths, ns>>
extvars == <<tasks, nsvars>>
vars == <<apivars, appvars, last, extvars>>

-----------------------------------------------------------------------------
(* Content negotiation *)

\* Quality weights are 1..MaxQ (MaxQ stands for q=1.0); an Accept header is a
\* sequence of [type, q] of at most MaxAccept entries, << >> when absent.
MaxQ == 2
MaxAccept == 2

Min(S) == CHOOSE x \in S : \A y \in S : x <= y

\* sorted(pairs, key=operator.itemgetter(1), reverse=True): by descending
\* weight, entries of equal weight in header order.
RECURSIVE SortedByQuality(_, _)
SortedByQuality(pairs, q) ==
  IF q = 0 THEN << >>
  ELSE SelectSeq(pairs, LAMBDA p : p.q = q) \o SortedByQuality(pairs, q - 1)

\* mediatypes without the sort: the media ranges in header order.
mediatypes_HeaderOrder(request) ==
  [i \in 1..Len(request.accept) |-> request.accept[i].type]

\* Api.mediatypes(request)
mediatypes(request) ==
  LET s == SortedByQuality(request.accept, MaxQ)
  IN [i \in 1..Len(s) |-> s[i].type]

\* Whether a media range of the Accept header matches a registered media type.
AcceptMatches(pattern, key) ==
  \/ pattern = key
  \/ pattern = "*/*"
  \/ pattern = "application/*" /\ key \in {"application/json", "application/xml"}

RepKeys(reps) == {reps[i].mediatype : i \in 1..Len(reps)}
RepFn(reps, mediatype) ==
  reps[CHOOSE i \in 1..Len(reps) : reps[i].mediatype = mediatype].fn

\* The first registered key (insertion order) a media range matches, or None.
FirstKeyMatching(reps, pattern) ==
  LET I == {i \in 1..Len(reps) : AcceptMatches(pattern, reps[i].mediatype)}
  IN IF I = {} THEN None ELSE reps[Min(I)].mediatype

\* utils.best_match_accept_mimetype(request, representations, default)
best_match_accept_mimetype(request, reps, default) ==
  LET prefs == mediatypes(request)
      I == {i \in 1..Len(prefs) : FirstKeyMatching(reps, prefs[i]) # None}
  IN IF I = {} THEN default ELSE FirstKeyMatching(reps, prefs[Min(I)])

\* A response object.  rendered_by is the function that encoded the body:
\* a representation, "text" (sanic.response.text) or, for a response the
\* host application built itself, "host".
Response(status, body, content_type, headers, rendered_by) ==
  [status |-> status, body |-> body, content_type |-> content_type,
   headers |-> headers, rendered_by |-> rendered_by]
NoResponse == Response(0, NoBody, None, {}, None)

\* The outcome of a call: a response, or the exception it raised.
Returned(resp) == [ok |-> TRUE, resp |-> resp, exc |-> NoExc]
Raised(exc) == [ok |-> FALSE, resp |-> NoResponse, exc |-> exc]

\* The Content-Type a render function puts on the response it builds:
\* output_json, output_xml and output_text declare the type they encode, a
\* user's output_alt declares text/html, sanic.response.text its default.
OwnType(fn) ==
  CASE fn = "output_json" -> "application/json"
    [] fn = "output_xml" -> "application/xml"
    [] fn = "output_text" -> "text/plain"
    [] fn = "text" -> "text/plain; charset=utf-8"
    [] OTHER -> "text/html"

\* self.representations[mediatype](request, data, code, headers) and
\* text(str(data), code, headers): the function keeps the code and the headers.
Render(fn, data, code, headers) == Response(code, data, OwnType(fn), headers, fn)

\* make_response with the text/plain test made before the registry lookup.
make_response_TextFirst(a, request, data, code, headers, fallback_mediatype) ==
  LET default == IF fallback_mediatype # None THEN fallback_mediatype
                 ELSE default_mediatype[a]
      mediatype == best_match_accept_mimetype(request, representations[a], default)
  IN IF mediatype = None THEN Raised(NotAcceptable)
     ELSE IF mediatype = "text/plain"
       THEN Returned([Render("text", data, code, headers)
                        EXCEPT !.content_type = "text/plain"])
     ELSE IF mediatype \in RepKeys(representations[a])
       THEN Returned([Render(RepFn(representations[a], mediatype), data, code, headers)
                        EXCEPT !.content_type = mediatype])
     ELSE Raised(ServerErrorNone)

\* make_response without resp.headers['Content-Type'] = mediatype.
make_response_RendererType(a, request, data, code, headers, fallback_mediatype) ==
  LET default == IF fallback_mediatype # None THEN fallback_mediatype
                 ELSE default_mediatype[a]
      mediatype == best_match_accept_mimetype(request, representations[a], default)
  IN IF mediatype = None THEN Raised(NotAcceptable)
     ELSE IF mediatype \in RepKeys(representations[a])
       THEN Returned(Render(RepFn(representations[a], mediatype), data, code, headers))
     ELSE IF mediatype = "text/plain"
       THEN Returned(Render("text", data, code, headers))
     ELSE Raised(ServerErrorNone)

\* Api.make_response(request, data, code, headers, fallback_mediatype=...)
make_response(a, request, data, code, headers, fallback_mediatype) ==
  LET default == IF fallback_mediatype # None THEN fallback_mediatype
                 ELSE default_mediatype[a]
      mediatype == best_match_accept_mimetype(request, representations[a], default)
  IN IF mediatype = None THEN Raised(NotAcceptable)
     ELSE IF mediatype \in RepKeys(representations[a])
       THEN Returned([Render(RepFn(representations[a], mediatype), data, code, headers)
                        EXCEPT !.content_type = mediatype])
     ELSE IF mediatype = "text/plain"
       THEN Returned([Render("text", data, code, headers)
                        EXCEPT !.content_type = "text/plain"])
     ELSE Raised(ServerErrorNone)

-----------------------------------------------------------------------------
(* The application's router and the ownership test *)

Methods == {"GET", "POST", "DELETE"}

\* A route of the application's router.  name is the handler's __name__ (the
\* endpoint), api the Api whose output wrapper wraps the handler (None for
\* the documentation page, which is not wrapped).
NoEndpoint == <<None, 0>>
Route(uri, methods, name, api) ==
  [uri |-> uri, methods |-> methods, name |-> name, handler |-> TRUE, api |-> api]

\* route.pattern.match(url) for the rules and request paths of the model.
UriMatches(uri, url) ==
  \/ uri = url
  \/ uri = "/i/<id>" /\ url = "/i/1"
  \/ uri = "/j/<id>" /\ url = "/j/1"
  \/ uri = "/f/<p:[a-z/]+>" /\ url = "/f/x"

\* sanic.router.url_hash: the number of '/' in the url.
url_hash(url) == IF url \in {"/", "/a", "/b", "/zzz", "/swagger.json"} THEN 1 ELSE 2

RouteFound(route) == [kind |-> "route", route |-> route, valid_methods |-> {}]
RaisedInvalidUsage(valid_methods) ==
  [kind |-> "InvalidUsage", route |-> Route(None, {}, NoEndpoint, None),
   valid_methods |-> valid_methods]
RaisedNotFound ==
  [kind |-> "NotFound", route |-> Route(None, {}, NoEndpoint, None),
   valid_methods |-> {}]

\* Api._dummy_router_get(router, method, request): the route, or the
\* InvalidUsage (405, with valid_methods) or NotFound it raises.  The two
\* for loops run over the hashed bucket and then over routes_always_check;
\* on exhaustion `route` is the last route iterated.
dummy_router_get(method, url) ==
  LET static == {r \in routes_static : r.uri = url}
  IN IF static # {}
     THEN LET route == CHOOSE r \in static : TRUE
          IN IF route.methods # {} /\ method \notin route.methods
             THEN RaisedInvalidUsage(route.methods)
             ELSE RouteFound(route)
     ELSE LET bucket == SelectSeq(routes_dynamic,
                                  LAMBDA r : url_hash(r.uri) = url_hash(url))
              scan == bucket \o routes_always_check
              hits == {i \in 1..Len(scan) :
                         UriMatches(scan[i].uri, url) /\ method \in scan[i].methods}
              route_found == \E i \in 1..Len(scan) : UriMatches(scan[i].uri, url)
          IN IF hits # {} THEN RouteFound(scan[Min(hits)])
             ELSE IF route_found THEN RaisedInvalidUsage(scan[Len(scan)].methods)
             ELSE RaisedNotFound

\* Api.owns_endpoint(endpoint); self.blueprint is always None (init_app
\* refuses a Blueprint).
owns_endpoint(a, endpoint) == endpoint \in endpoints[a]

\* next(iter(valid_methods)): some element of the frozenset; `probe` is the
\* one the iteration order yields when it is in the set.
FirstOf(valid_methods, probe) ==
  IF probe \in valid_methods THEN probe ELSE CHOOSE m \in valid_methods : TRUE

Verdict(value) == [kind |-> "bool", value |-> value, exc |-> None]
VerdictRaised(exc) == [kind |-> "raise", value |-> FALSE, exc |-> exc]

\* Api._should_use_fr_error_handler(request) followed by the tests of
\* Api._has_fr_route(request): TRUE or FALSE, or the exception class that
\* escapes (one raised inside the `except InvalidUsage` block is caught by
\* no other clause of the same try).
has_fr_route(a, request, probe) ==
  LET first == dummy_router_get(request.method, request.path)
  IN CASE first.kind = "route" ->
            IF ~first.route.handler \/ first.route.name = NoEndpoint
            THEN Verdict(FALSE)
            ELSE Verdict(owns_endpoint(a, first.route.name))
       [] first.kind = "NotFound" -> Verdict(catch_all_404s[a])
       [] OTHER ->
            LET try_route_method == FirstOf(first.valid_methods, probe)
                second == dummy_router_get(try_route_method, request.path)
            IN IF second.kind = "route"
               THEN Verdict(owns_endpoint(a, second.route.name))
               ELSE VerdictRaised(second.kind)

-----------------------------------------------------------------------------
(* Error resolution *)

\* ErrorRule with the default handler consulted before the SanicException test.
ErrorRule_DefaultFirst(a, e) ==
  IF error_handlers[a][e.cls] # None THEN 1
  ELSE IF default_error_handler[a] # None THEN 3
  ELSE IF IsSanicException(e.cls) THEN 2
  ELSE 4

\* The branch of handle_error's if/elif chain an error takes: 1 a handler
\* registered for e.__class__, 2 isinstance(e, SanicException), 3 the default
\* handler, 4 the generic 500.
ErrorRule(a, e) ==
  IF error_handlers[a][e.cls] # None THEN 1
  ELSE IF IsSanicException(e.cls) THEN 2
  ELSE IF default_error_handler[a] # None THEN 3
  ELSE 4

\* app.config.get("ERROR_404_HELP", True)
Help404 == ERROR_404_HELP # "False"

\* Api.unauthorized(response): current_app is not defined in the module, so
\* the branch that serves the challenge raises NameError.
unauthorized(a, response) ==
  IF serve_challenge_on_401[a]
  THEN Raised(PlainExc("NameError", 0, "name 'current_app' is not defined"))
  ELSE Returned(response)

\* ErrorDefaults with the generic 500 taking its message from str(e).
ErrorDefaults_StrMessage(a, e) ==
  LET rule == ErrorRule(a, e)
  IN CASE rule = 1 -> unpack(HandlerResult(error_handlers[a][e.cls], e), 500)
       [] rule = 2 ->
            [data |-> Body(IF e.message # Absent THEN e.message
                           ELSE StatusPhrase(e.status_code), Absent),
             code |-> e.status_code, headers |-> {}]
       [] rule = 3 -> unpack(HandlerResult(default_error_handler[a], e), 500)
       [] OTHER ->
            [data |-> Body(e.text, Absent), code |-> 500, headers |-> {}]

\* default_data, code, headers as the chosen branch sets them.
ErrorDefaults(a, e) ==
  LET rule == ErrorRule(a, e)
  IN CASE rule = 1 -> unpack(HandlerResult(error_handlers[a][e.cls], e), 500)
       [] rule = 2 ->
            [data |-> Body(IF e.message # Absent THEN e.message
                           ELSE StatusPhrase(e.status_code), Absent),
             code |-> e.status_code, headers |-> {}]
       [] rule = 3 -> unpack(HandlerResult(default_error_handler[a], e), 500)
       [] OTHER ->
            [data |-> Body(StatusPhrase(500), Absent), code |-> 500, headers |-> {}]

\* WithMessage without the default: the handler's body is left as it is.
WithMessage_Untouched(default_data, e) == default_data

\* default_data['message'] = default_data.get('message', str(e))
WithMessage(default_data, e) ==
  [default_data EXCEPT !.message = IF @ = Absent THEN e.text ELSE @]

\* data = getattr(e, 'data', default_data)
ErrorData(default_data, e) == IF e.has_data THEN e.data ELSE default_data

\* FallbackMediatype never set: a 406 is rendered like any other error.
FallbackMediatype_Unset(a, code) == None

\* fallback_mediatype as handle_error sets it.
FallbackMediatype(a, code) ==
  IF code < 500 /\ ~(code = 404 /\ Help404) /\ code = 406
     /\ default_mediatype[a] = None
  THEN IF Len(representations[a]) > 0 THEN representations[a][1].mediatype
       ELSE "text/plain"
  ELSE None

\* Api.handle_error(request, e)
handle_error(a, request, e) ==
  LET rule == ErrorRule(a, e)
      handler == IF rule = 1 THEN error_handlers[a][e.cls]
                 ELSE default_error_handler[a]
  IN IF rule \in {1, 3} /\ HandlerRaises(handler)
     THEN Raised(PlainExc("RuntimeError", 0, "handler failed"))
     ELSE LET d == ErrorDefaults(a, e)
              data == ErrorData(WithMessage(d.data, e), e)
          IN IF d.code < 500 /\ d.code = 404 /\ Help404
             THEN Raised(PlainExc("NotImplementedError", 0,
                                  "Help on 404 is not yet implemented"))
             ELSE LET resp == make_response(a, request, data, d.code,
                                            d.headers \ HEADERS_BLACKLIST,
                                            FallbackMediatype(a, d.code))
                  IN IF resp.ok /\ d.code = 401
                     THEN unauthorized(a, resp.resp)
                     ELSE resp

\* sanic.handlers.ErrorHandler.response: the host's own rendering of an error.
HostResponse(e) ==
  Response(IF IsSanicException(e.cls) THEN e.status_code ELSE 500,
           Body(Absent, "Error: " \o e.text), "text/plain", {}, "host")

\* What the error hook gave: the outcome, the Api that claimed the error
\* (None when none did) and the rule its handle_error applied (0 when none).
Handled(outcome, by, rule) ==
  [ok |-> outcome.ok, resp |-> outcome.resp, exc |-> outcome.exc,
   by |-> by, rule |-> rule]

\* ApiErrorHandler.response(request, e) of the k-th wrapper of the chain.
\* After `except Exception as e: pass` the name e is unbound, so the call of
\* the original handler that follows raises UnboundLocalError.
RECURSIVE ApiErrorHandler_response(_, _, _, _)
ApiErrorHandler_response(k, request, e, probe) ==
  IF k = 0 THEN Handled(Returned(HostResponse(e)), None, 0)
  ELSE LET a == error_handler[k]
           claim == has_fr_route(a, request, probe)
       IN IF claim.kind = "raise"
          THEN Handled(Raised(PlainExc(claim.exc, 0, "probe")), None, 0)
          ELSE IF claim.value
          THEN LET r == handle_error(a, request, e)
               IN IF r.ok THEN Handled(r, a, ErrorRule(a, e))
                  ELSE Handled(Raised(PlainExc("UnboundLocalError", 0,
                                 "local variable 'e' referenced before assignment")),
                               a, ErrorRule(a, e))
          ELSE ApiErrorHandler_response(k - 1, request, e, probe)

-----------------------------------------------------------------------------
(* Serving a request *)

\* OutputWrapper with the headers of the resource's result dropped.
OutputWrapper_NoHeaders(a, request, beh) ==
  CASE beh.kind = "raise" -> Raised(beh.err)
    [] beh.kind = "response" -> Returned(beh.resp)
    [] OTHER -> LET u == unpack(beh.raw, 200)
                IN make_response(a, request, u.data, u.code, {}, None)

\* OutputWrapper with a response object rendered again like a raw body.
OutputWrapper_Renegotiates(a, request, beh) ==
  CASE beh.kind = "raise" -> Raised(beh.err)
    [] beh.kind = "response" ->
         make_response(a, request, beh.resp.body, beh.resp.status,
                       beh.resp.headers, None)
    [] OTHER -> LET u == unpack(beh.raw, 200)
                IN make_response(a, request, u.data, u.code, u.headers, None)

\* The wrapper Api.output builds around a resource.  beh is what the
\* resource does: raise beh.err, return the response object beh.resp, or
\* return the raw value beh.raw.
OutputWrapper(a, request, beh) ==
  CASE beh.kind = "raise" -> Raised(beh.err)
    [] beh.kind = "response" -> Returned(beh.resp)
    [] OTHER -> LET u == unpack(beh.raw, 200)
                IN make_response(a, request, u.data, u.code, u.headers, None)

Raise(err) == [kind |-> "raise", err |-> err, resp |-> NoResponse,
               raw |-> Raw("bare", NoBody, 0, {})]
Return(raw) == [kind |-> "return", err |-> NoExc, resp |-> NoResponse, raw |-> raw]
ReturnResponse(resp) == [kind |-> "response", err |-> NoExc, resp |-> resp,
                         raw |-> Raw("bare", NoBody, 0, {})]
NoBeh == [kind |-> None, err |-> NoExc, resp |-> NoResponse,
          raw |-> Raw("bare", NoBody, 0, {})]

\* The application's handling of one request: routing (Router.get, of which
\* _dummy_router_get is a copy), the wrapped resource, and on an exception
\* app.error_handler.response.  The result records the request, the route,
\* what the resource did (NoBeh when no resource of an Api was called),
\* the exception given to the error hook (NoExc when none was raised),
\* and what came back: a response, or the exception that escaped the hook.
HandleRequest(request, beh, probe) ==
  LET found == dummy_router_get(request.method, request.path)
      first ==
        CASE found.kind = "NotFound" ->
               Raised(PlainExc("NotFound", 404, "Requested URL not found"))
          [] found.kind = "InvalidUsage" ->
               Raised(PlainExc("InvalidUsage", 405, "Method not allowed for URL"))
          [] OTHER ->
               IF found.route.api = None
               THEN Returned(Response(200, NoBody, "text/html", {}, "host"))
               ELSE OutputWrapper(found.route.api, request, beh)
      hooked == IF first.ok THEN Handled(first, None, 0)
                ELSE ApiErrorHandler_response(Len(error_handler), request,
                                              first.exc, probe)
  IN [req |-> request, route |-> found.route,
      beh |-> IF found.kind = "route" /\ found.route.api # None THEN beh ELSE NoBeh,
      err |-> first.exc,
      ok |-> hooked.ok, resp |-> hooked.resp, exc |-> hooked.exc,
      by |-> hooked.by, rule |-> hooked.rule]

Request(path, method, accept) ==
  [path |-> path, method |-> method, accept |-> accept, body |-> None]
NoLast ==
  [req |-> Request(None, None, << >>), route |-> Route(None, {}, NoEndpoint, None),
   beh |-> NoBeh, err |-> NoExc, ok |-> TRUE, resp |-> NoResponse, exc |-> NoExc,
   by |-> None, rule |-> 0]

\* The requests the event loop holds at once, and the deepest nesting of
\* coroutines a resource returns.
Slots == {"r1", "r2"}
MaxAwaits == 2

\* What calling a resource's method gives: the behaviour beh itself when
\* awaits = 0, else a coroutine that, awaited, suspends and then gives
\* Coroutine(awaits - 1, beh).
Coroutine(awaits, beh) == [awaits |-> awaits, beh |-> beh]
iscoroutine(resp) == resp.awaits > 0
Await(resp) == [resp EXCEPT !.awaits = @ - 1]

\* The wrapper's loop stopping one coroutine early.
KeepsAwaiting_StopsEarly(resp) == resp.awaits > 1

\* while asyncio.iscoroutine(resp)
KeepsAwaiting(resp) == iscoroutine(resp)

\* What the wrapper goes on with after its loop.  An object that is no
\* HTTPResponse, a coroutine included, is unpacked as a bare value.
Settled(resp) ==
  IF iscoroutine(resp) THEN Return(Raw("bare", Body(Absent, "coroutine"), 0, {}))
  ELSE resp.beh

\* A slot of the event loop: free, or holding a request whose wrapper is
\* suspended in `await resp`, or holding a request whose wrapper has left
\* its loop with resp.  awaited counts the awaits the wrapper has done.
Task(state, request, resp, awaited) ==
  [state |-> state, req |-> request, resp |-> resp, awaited |-> awaited]
NoTask == Task("free", Request(None, None, << >>), Coroutine(0, NoBeh), 0)

Idle == last = NoLast /\ \A s \in Slots : tasks[s].state = "free"

\* One request served, drawn from the given requests and resource behaviours;
\* Probes are the methods the iteration of valid_methods may yield first.
Serve(Reqs, Behs, Probes) ==
  /\ Idle
  /\ \E request \in Reqs, beh \in Behs, probe \in Probes :
       last' = HandleRequest(request, beh, probe)
  /\ UNCHANGED <<apivars, appvars, extvars>>

\* The response is sent; the application is idle again.
Deliver ==
  /\ ~Idle
  /\ last' = NoLast
  /\ UNCHANGED <<apivars, appvars, extvars>>

\* The application starts on a request in slot s.  A request routed to a
\* resource of an Api runs the wrapper up to its first `await`; beh and awaits
\* say what the resource's method returns.  For any other request no
\* resource is called.
Call(s, request, beh, awaits) ==
  LET resp == Coroutine(awaits, beh)
      found == dummy_router_get(request.method, request.path)
      wrapped == found.kind = "route" /\ found.route.api # None
  IN /\ tasks[s].state = "free"
     /\ tasks' = [tasks EXCEPT
                   ![s] = IF ~wrapped
                          THEN Task("done", request, Coroutine(0, NoBeh), 0)
                          ELSE IF KeepsAwaiting(resp)
                          THEN Task("suspended", request, resp, 0)
                          ELSE Task("done", request, resp, 0)]
     /\ UNCHANGED <<apivars, appvars, last, nsvars>>

\* The event loop resumes the wrapper of slot s: `resp = await resp` gives
\* the coroutine's result, and the loop condition is tested again.
Resume(s) ==
  LET resp == Await(tasks[s].resp)
      awaited == tasks[s].awaited + 1
  IN /\ tasks[s].state = "suspended"
     /\ tasks' = [tasks EXCEPT
                   ![s] = IF KeepsAwaiting(resp)
                          THEN Task("suspended", tasks[s].req, resp, awaited)
                          ELSE Task("done", tasks[s].req, resp, awaited)]
     /\ UNCHANGED <<apivars, appvars, last, nsvars>>

\* What the client of slot s gets once the wrapper has left its loop: the
\* rest of the wrapper and of the application's handling, applied to resp.
\* The registries do not change while a request is in flight (Idle).
Answer(s) == HandleRequest(tasks[s].req, Settled(tasks[s].resp), "GET")

\* The answer of slot s is sent; the slot is free again.
Send(s) ==
  /\ tasks[s].state = "done"
  /\ tasks' = [tasks EXCEPT ![s] = NoTask]
  /\ UNCHANGED <<apivars, appvars, last, nsvars>>

-----------------------------------------------------------------------------
(* Registration *)

\* utils.camel_to_dash(resource.__name__)
camel_to_dash(resource) ==
  CASE resource = "Foo" -> "foo"
    [] resource = "Bar" -> "bar"
    [] OTHER -> "swagger-view"

\* The HTTP methods a resource class defines (the route's methods).
ResourceMethods(resource) ==
  CASE resource = "Foo" -> {"GET"}
    [] resource = "Bar" -> {"POST", "DELETE"}
    [] OTHER -> {"GET"}

\* default_endpoint without its loop: a taken name gets the suffix 2.
EndpointFor_SuffixTwo(eps, resource, namespace) ==
  LET endpoint == IF namespace # "default"
                  THEN namespace \o "_" \o camel_to_dash(resource)
                  ELSE camel_to_dash(resource)
  IN IF <<endpoint, 1>> \in eps THEN <<endpoint, 2>> ELSE <<endpoint, 1>>

\* The body of Api.default_endpoint, against the endpoint set eps.
EndpointFor(eps, resource, namespace) ==
  LET endpoint == IF namespace # "default"
                  THEN namespace \o "_" \o camel_to_dash(resource)
                  ELSE camel_to_dash(resource)
  IN IF <<endpoint, 1>> \in eps
     THEN <<endpoint, Min({suffix \in 2..(Cardinality(eps) + 2) :
                             <<endpoint, suffix>> \notin eps})>>
     ELSE <<endpoint, 1>>

\* Api.default_endpoint(resource, namespace)
default_endpoint(a, resource, namespace) ==
  EndpointFor(endpoints[a], resource, namespace)

\* The router as one value, for the steps that add several routes.
Router(static, dynamic, always_check) ==
  [static |-> static, dynamic |-> dynamic, always_check |-> always_check,
   exists |-> FALSE]
TheRouter == Router(routes_static, routes_dynamic, routes_always_check)
routes_all(router) ==
  {r.uri : r \in router.static}
    \cup {router.dynamic[i].uri : i \in 1..Len(router.dynamic)}
    \cup {router.always_check[i].uri : i \in 1..Len(router.always_check)}

\* app.add_route(handler, uri) as Api._register_view calls it: a static uri
\* goes to routes_static, one with a parameter to routes_dynamic, one whose
\* parameter pattern holds a '/' to routes_always_check.  A uri that is
\* registered already raises RouteExists (exists) and adds nothing.
add_route(router, route) ==
  IF router.exists \/ route.uri \in routes_all(router)
  THEN [router EXCEPT !.exists = TRUE]
  ELSE CASE route.uri \in {"/i/<id>", "/j/<id>"} ->
              [router EXCEPT !.dynamic = Append(@, route)]
         [] route.uri = "/f/<p:[a-z/]+>" ->
              [router EXCEPT !.always_check = Append(@, route)]
         [] OTHER -> [router EXCEPT !.static = @ \cup {route}]

\* Api._register_view(app, resource, url, endpoint=endpoint): the route's
\* handler is self.output(resource.as_view(...)), renamed to the endpoint.
register_view(a, router, resource, url, endpoint) ==
  add_route(router, Route(url, ResourceMethods(resource), endpoint, a))

SetRouter(router) ==
  /\ routes_static' = router.static
  /\ routes_dynamic' = router.dynamic
  /\ routes_always_check' = router.always_check

Registration(resource, url, endpoint) ==
  [resource |-> resource, url |-> url, endpoint |-> endpoint]

\* Api.register_resource(namespace, resource, url, endpoint=explicit);
\* explicit = NoEndpoint when no endpoint is given.
register_resource(a, namespace, resource, url, explicit) ==
  LET endpoint == IF explicit # NoEndpoint THEN explicit
                  ELSE default_endpoint(a, resource, namespace)
  IN /\ Idle
     /\ endpoints' = [endpoints EXCEPT ![a] = @ \cup {endpoint}]
     /\ IF app[a]
        THEN /\ SetRouter(register_view(a, TheRouter, resource, url, endpoint))
             /\ UNCHANGED resources
        ELSE /\ resources' = [resources EXCEPT
                               ![a] = Append(@, Registration(resource, url, endpoint))]
             /\ UNCHANGED <<routes_static, routes_dynamic, routes_always_check>>
     /\ UNCHANGED <<app, error_handlers, default_error_handler, representations,
                    default_mediatype, catch_all_404s, serve_challenge_on_401,
                    error_handler, ERROR_404_HELP, last, extvars>>

\* An _init_app that leaves the deferred registrations where they are.
RegisterDeferred_None(a, router, regs) == router

\* The loop of Api._init_app over self.resources.
RECURSIVE RegisterDeferred(_, _, _)
RegisterDeferred(a, router, regs) ==
  IF regs = << >> THEN router
  ELSE RegisterDeferred(a,
         register_view(a, router, Head(regs).resource, Head(regs).url,
                       Head(regs).endpoint),
         Tail(regs))

\* Api uids: Api.uid_counter at construction.
SpecsEndpoint(a) == IF a = "A" THEN <<"specs1", 1>> ELSE <<"specs2", 1>>
DocEndpoint(a) == IF a = "A" THEN <<"doc1", 1>> ELSE <<"doc2", 1>>

\* Api.init_app(app, add_specs=...) and Api._init_app(app) on a Sanic
\* application.  _register_specs and _register_doc add the swagger.json and
\* documentation routes; a RouteExists they raise ends the call there, with
\* the error hook not installed.  A RouteExists raised for a deferred
\* resource ends the loop, with the hook installed.  self.app is set by the
\* first call; a later call runs _init_app again on the same application.
init_app(a, add_specs) ==
  LET specs == IF add_specs
               THEN register_view(a, TheRouter, "SwaggerView", "/swagger.json",
                                  SpecsEndpoint(a))
               ELSE TheRouter
      doc == IF add_specs
             THEN add_route(specs, Route("/", {"GET"}, DocEndpoint(a), None))
             ELSE specs
  IN /\ Idle
     /\ app' = [app EXCEPT ![a] = TRUE]
     /\ IF doc.exists
        THEN /\ SetRouter(doc)
             /\ endpoints' = [endpoints EXCEPT
                               ![a] = IF specs.exists THEN @
                                      ELSE @ \cup {SpecsEndpoint(a)}]
             /\ UNCHANGED error_handler
        ELSE /\ SetRouter(RegisterDeferred(a, doc, resources[a]))
             /\ endpoints' = [endpoints EXCEPT
                               ![a] = IF add_specs THEN @ \cup {SpecsEndpoint(a)}
                                      ELSE @]
             /\ error_handler' = Append(error_handler, a)
     /\ UNCHANGED <<resources, error_handlers, default_error_handler,
                    representations, default_mediatype, catch_all_404s,
                    serve_challenge_on_401, ERROR_404_HELP, last, extvars>>

\* Api.errorhandler(exception)(func) for an exception class.
errorhandler(a, exception, func) ==
  /\ Idle
  /\ error_handlers' = [error_handlers EXCEPT ![a][exception] = func]
  /\ UNCHANGED <<app, endpoints, resources, default_error_handler,
                 representations, default_mediatype, catch_all_404s,
                 serve_challenge_on_401, appvars, last, extvars>>

\* Api.errorhandler(func): func is no exception class, so it becomes the
\* default handler.
errorhandler_default(a, func) ==
  /\ Idle
  /\ default_error_handler' = [default_error_handler EXCEPT ![a] = func]
  /\ UNCHANGED <<app, endpoints, resources, error_handlers, representations,
                 default_mediatype, catch_all_404s, serve_challenge_on_401,
                 appvars, last, extvars>>

\* An assignment that replaces the registry by the one new entry.
SetRepresentation_Only(reps, mediatype, func) ==
  << [mediatype |-> mediatype, fn |-> func] >>

\* self.representations[mediatype] = func on the OrderedDict: a new key goes
\* last, a key that is present keeps its place.
SetRepresentation(reps, mediatype, func) ==
  IF mediatype \in RepKeys(reps)
  THEN [i \in 1..Len(reps) |->
          IF reps[i].mediatype = mediatype
          THEN [mediatype |-> mediatype, fn |-> func] ELSE reps[i]]
  ELSE Append(reps, [mediatype |-> mediatype, fn |-> func])

\* Api.representation(mediatype)(func)
representation(a, mediatype, func) ==
  /\ Idle
  /\ representations' = [representations EXCEPT
                           ![a] = SetRepresentation(@, mediatype, func)]
  /\ UNCHANGED <<app, endpoints, resources, error_handlers, default_error_handler,
                 default_mediatype, catch_all_404s, serve_challenge_on_401,
                 appvars, last, extvars>>

-----------------------------------------------------------------------------
(* Construction *)

ExcClasses == {"ParseError", "MaskError", "SanicException", "NotFound",
               "InvalidUsage", "ServerError", "CustomError", "SubError",
               "ValueError"}

\* The namespaces of the model, as Namespace(name) leaves them: path
\* '/' + name, attached to no Api, with no resources and no error handlers.
NsIds == {"apples", "pears"}
Namespace(name) ==
  [name |-> name, path |-> "/" \o name, apis |-> << >>, resources |-> << >>,
   error_handlers |-> [c \in ExcClasses |-> None]]

\* DEFAULT_REPRESENTATIONS
DEFAULT_REPRESENTATIONS == << [mediatype |-> "application/json", fn |-> "output_json"] >>

\* Constructed with an error-handler registry that starts empty.
Constructed_EmptyRegistry ==
  /\ app = [a \in ApiIds |-> FALSE]
  /\ endpoints = [a \in ApiIds |-> {}]
  /\ resources = [a \in ApiIds |-> << >>]
  /\ error_handlers = [a \in ApiIds |-> [c \in ExcClasses |-> None]]
  /\ default_error_handler = [a \in ApiIds |-> None]
  /\ representations = [a \in ApiIds |-> DEFAULT_REPRESENTATIONS]
  /\ routes_static = {}
  /\ routes_dynamic = << >>
  /\ routes_always_check = << >>
  /\ error_handler = << >>
  /\ last = NoLast
  /\ tasks = [s \in Slots |-> NoTask]
  /\ namespaces = [a \in ApiIds |-> << >>]
  /\ ns_paths = [a \in ApiIds |-> [n \in NsIds |-> None]]
  /\ ns = [n \in NsIds |-> Namespace(n)]

\* Api.__init__ without an app, for both Apis, and a fresh application.
\* The constructor arguments default_mediatype, catch_all_404s and
\* serve_challenge_on_401 and the application's ERROR_404_HELP setting are
\* constrained by the specification that uses Constructed.
Constructed ==
  /\ app = [a \in ApiIds |-> FALSE]
  /\ endpoints = [a \in ApiIds |-> {}]
  /\ resources = [a \in ApiIds |-> << >>]
  /\ error_handlers =
       [a \in ApiIds |->
          [c \in ExcClasses |->
             CASE c = "ParseError" -> "mask_parse_error_handler"
               [] c = "MaskError" -> "mask_error_handler"
               [] OTHER -> None]]
  /\ default_error_handler = [a \in ApiIds |-> None]
  /\ representations = [a \in ApiIds |-> DEFAULT_REPRESENTATIONS]
  /\ routes_static = {}
  /\ routes_dynamic = << >>
  /\ routes_always_check = << >>
  /\ error_handler = << >>
  /\ last = NoLast
  /\ tasks = [s \in Slots |-> NoTask]
  /\ namespaces = [a \in ApiIds |-> << >>]
  /\ ns_paths = [a \in ApiIds |-> [n \in NsIds |-> None]]
  /\ ns = [n \in NsIds |-> Namespace(n)]

\* The number of resources an Api has registered or holds for registration,
\* and the number of add_resource calls it has seen (a call whose route is
\* refused still adds its endpoint).
MaxResources == 2
Registered(a) ==
  Len(resources[a])
  + Cardinality({r \in routes_static : r.api = a /\ r.name # SpecsEndpoint(a)})
  + Len(SelectSeq(routes_dynamic, LAMBDA r : r.api = a))
  + Len(SelectSeq(routes_always_check, LAMBDA r : r.api = a))
Named(a) == Cardinality(endpoints[a] \ {SpecsEndpoint(a)})
MayRegister ==
  /\ Registered("A") + Registered("B") < MaxResources
  /\ Named("A") + Named("B") < MaxResources

-----------------------------------------------------------------------------
(* Namespaces *)

\* Api.ns_urls(ns, [url]) with self.ns_paths = paths[a]:
\* `self.get_ns_path(ns) or ns.path`, then path + url.  A path that is
\* None or empty is false, so the namespace's own path is taken.
ns_urls(paths, a, n, url) ==
  LET path == IF paths[a][n] # None /\ paths[a][n] # "" THEN paths[a][n]
              ELSE ns[n].path
  IN path \o url

\* What register_resource works on, as one value.
Registry(eps, regs, router) == [endpoints |-> eps, resources |-> regs, router |-> router]

\* Api.register_resource(ns, resource, *self.ns_urls(ns, urls)) for each
\* entry of regs in turn, on Api a.  A RouteExists raised by add_route ends
\* the loop, with the endpoint of the refused route added.
RECURSIVE RegisterNamespace(_, _, _, _, _)
RegisterNamespace(st, a, n, paths, regs) ==
  IF regs = << >> \/ st.router.exists THEN st
  ELSE LET resource == Head(regs).resource
           url == ns_urls(paths, a, n, Head(regs).url)
           endpoint == EndpointFor(st.endpoints[a], resource, n)
           next ==
             Registry([st.endpoints EXCEPT ![a] = @ \cup {endpoint}],
                      IF app[a] THEN st.resources
                      ELSE [st.resources EXCEPT
                              ![a] = Append(@, Registration(resource, url, endpoint))],
                      IF app[a] THEN register_view(a, st.router, resource, url, endpoint)
                      ELSE st.router)
       IN RegisterNamespace(next, a, n, paths, Tail(regs))

\* `for api in self.apis: api.register_resource(self, resource, ...)` of
\* Namespace.add_resource.
RECURSIVE RegisterOnApis(_, _, _, _)
RegisterOnApis(st, apis, n, regs) ==
  IF apis = << >> \/ st.router.exists THEN st
  ELSE RegisterOnApis(RegisterNamespace(st, Head(apis), n, ns_paths, regs),
                      Tail(apis), n, regs)

SetRegistry(st) ==
  /\ endpoints' = st.endpoints
  /\ resources' = st.resources
  /\ SetRouter(st.router)

\* A merge that keeps the handler the Api already holds for a class.
MergeHandlers_KeepExisting(handlers, merged) ==
  [c \in DOMAIN handlers |-> IF handlers[c] # None THEN handlers[c] ELSE merged[c]]

\* `for exception, handler in ns.error_handlers.items():
\*      self.error_handlers[exception] = handler`
MergeHandlers(handlers, merged) ==
  [c \in DOMAIN handlers |-> IF merged[c] # None THEN merged[c] ELSE handlers[c]]

\* ns in self.namespaces
Attached(a, n) == \E i \in DOMAIN namespaces[a] : namespaces[a][i] = n

\* self.ns_paths after the first block of add_namespace(ns, path).
PathsWith(a, n, path) ==
  IF ~Attached(a, n) /\ path # None
  THEN [ns_paths EXCEPT ![a][n] = path] ELSE ns_paths

\* The registrations add_namespace(ns, path) makes on Api a.
Attach(a, n, path) ==
  RegisterNamespace(Registry(endpoints, resources, TheRouter), a, n,
                    PathsWith(a, n, path), ns[n].resources)

\* Api.add_namespace(ns, path).  A RouteExists raised while the resources
\* are registered leaves the call before the error handlers are merged.
\* self.models is not modelled.
add_namespace(a, n, path) ==
  LET new == ~Attached(a, n)
      st == Attach(a, n, path)
  IN /\ Idle
     /\ namespaces' = IF new THEN [namespaces EXCEPT ![a] = Append(@, n)]
                      ELSE namespaces
     /\ ns' = IF new /\ (\A i \in DOMAIN ns[n].apis : ns[n].apis[i] # a)
              THEN [ns EXCEPT ![n].apis = Append(@, a)] ELSE ns
     /\ ns_paths' = PathsWith(a, n, path)
     /\ SetRegistry(st)
     /\ error_handlers' =
          IF st.router.exists THEN error_handlers
          ELSE [error_handlers EXCEPT ![a] = MergeHandlers(@, ns[n].error_handlers)]
     /\ UNCHANGED <<app, default_error_handler, representations, default_mediatype,
                    catch_all_404s, serve_challenge_on_401, error_handler,
                    ERROR_404_HELP, last, tasks>>

\* Namespace.errorhandler(exception)(func)
Namespace_errorhandler(n, exception, func) ==
  /\ Idle
  /\ ns' = [ns EXCEPT ![n].error_handlers[exception] = func]
  /\ UNCHANGED <<apivars, appvars, last, tasks, namespaces, ns_paths>>

\* @ns.route(url) on a resource class, which is Namespace.add_resource: the
\* resource is kept on the namespace and registered with every Api the
\* namespace is attached to.
Namespace_add_resource(n, resource, url) ==
  LET reg == [resource |-> resource, url |-> url]
  IN /\ Idle
     /\ ns' = [ns EXCEPT ![n].resources = Append(@, reg)]
     /\ SetRegistry(RegisterOnApis(Registry(endpoints, resources, TheRouter),
                                   ns[n].apis, n, << reg >>))
     /\ UNCHANGED <<app, error_handlers, default_error_handler, representations,
                    default_mediatype, catch_all_404s, serve_challenge_on_401,
                    error_handler, ERROR_404_HELP, last, tasks, namespaces, ns_paths>>

\* JSON values of the model: strings and numbers, and objects with the keys
\* name and age.
Str(s) == [t |-> "str", s |-> s, n |-> 0]
Num(n) == [t |-> "num", s |-> "", n |-> n]
JsonObjects == [{"name", "age"} -> {Str("John Doe"), Str("15"), Num(15), Num(0)}]

\* The JSON text of a string or a number.
Encode(v) == IF v.t = "str" THEN "\"" \o v.s \o "\"" ELSE ToString(v.n)

\* json.dumps(data) of the test client's post_json, and the json.loads of
\* request.json: the object whose text is the body.
dumps(data) ==
  "{\"name\": " \o Encode(data["name"]) \o ", \"age\": " \o Encode(data["age"]) \o "}"
loads(text) == CHOOSE data \in JsonObjects : dumps(data) = text

\* client.post_json(path, data)
post_json(path, data) == [Request(path, "POST", << >>) EXCEPT !.body = dumps(data)]

\* Api.payload(request): request.json
payload(request) == IF request.body = None THEN None ELSE loads(request.body)

-----------------------------------------------------------------------------
(* Error handling of one Api: specification Spec *)

\* The errors a resource of the model raises.
RaisedErrors ==
  { PlainExc("CustomError", 0, "boom"),
    Exc("CustomError", 0, "boom", Absent, TRUE, Body(Absent, "x")),
    Exc("CustomError", 0, "boom", Absent, TRUE, Body("from data", "x")),
    PlainExc("SubError", 0, "sub"),
    PlainExc("ValueError", 0, "bad value"),
    PlainExc("ParseError", 0, "bad mask"),
    PlainExc("MaskError", 0, "bad field"),
    PlainExc("InvalidUsage", 400, "bad request"),
    Exc("InvalidUsage", 400, "bad request", "custom", FALSE, NoBody),
    PlainExc("NotFound", 404, "no such item") }

RegClasses == {"CustomError", "InvalidUsage", "ParseError"}
UserHandlers == {"h_conflict", "h_nomsg", "h_401", "h_404", "h_bare", "h_raise"}
DefaultHandlers == {"h_nomsg", "h_raise"}
\* The handlers a class may be given in Spec.
HandlersFor(exception) ==
  IF exception = "CustomError" THEN UserHandlers ELSE {"h_conflict"}

ErrRequests ==
  { Request(path, method, accept) :
      path \in {"/a", "/zzz"}, method \in {"GET", "POST"},
      accept \in { << >>, << [type |-> "image/png", q |-> 1] >> } }
ErrBehaviours ==
  { Raise(e) : e \in RaisedErrors }
    \cup { Return(Raw("t2", Body(Absent, "v"), 201, {})) }

\* Api A is constructed with any default_mediatype of {application/json,
\* None} and any serve_challenge_on_401, the application with ERROR_404_HELP
\* unset or False; Api B keeps the constructor's defaults and is not used.
Init ==
  /\ Constructed
  /\ default_mediatype \in [ApiIds -> {"application/json", None}]
  /\ default_mediatype["B"] = "application/json"
  /\ catch_all_404s = [a \in ApiIds |-> FALSE]
  /\ serve_challenge_on_401 \in [ApiIds -> BOOLEAN]
  /\ serve_challenge_on_401["B"] = FALSE
  /\ ERROR_404_HELP \in {"unset", "False"}

Next ==
  \/ init_app("A", TRUE)
  \/ Registered("A") = 0 /\ register_resource("A", "default", "Foo", "/a", NoEndpoint)
  \/ \E exception \in RegClasses : \E func \in HandlersFor(exception) :
       errorhandler("A", exception, func)
  \/ \E func \in DefaultHandlers : errorhandler_default("A", func)
  \/ Serve(ErrRequests, ErrBehaviours, {"GET"})
  \/ Deliver

Spec == Init /\ [][Next]_vars

-----------------------------------------------------------------------------
(* Content negotiation of one Api: specification SpecNeg *)

\* The media ranges of the Accept headers sent.
NegPatterns == {"application/json", "application/xml", "text/plain",
                "application/*", "*/*", "image/png"}

\* The Accept headers of at most n entries.
RECURSIVE AcceptHeaders(_)
AcceptHeaders(n) ==
  IF n = 0 THEN { << >> }
  ELSE AcceptHeaders(n - 1)
         \cup { Append(h, [type |-> t, q |-> q]) :
                  h \in { g \in AcceptHeaders(n - 1) : Len(g) = n - 1 },
                  t \in NegPatterns, q \in 1..MaxQ }

NegRequests == { Request("/a", "GET", accept) : accept \in AcceptHeaders(MaxAccept) }
NegBehaviours == { Return(Raw("t2", Body(Absent, "v"), 201, {})) }

\* The @api.representation registrations made.
NegRegistrations ==
  { <<"application/json", "output_alt">>,
    <<"application/xml", "output_xml">>,
    <<"text/plain", "output_text">> }

InitNeg ==
  /\ Constructed
  /\ default_mediatype \in
       [ApiIds -> {"application/json", "application/xml", "text/plain", None}]
  /\ default_mediatype["B"] = "application/json"
  /\ catch_all_404s = [a \in ApiIds |-> FALSE]
  /\ serve_challenge_on_401 = [a \in ApiIds |-> FALSE]
  /\ ERROR_404_HELP = "unset"

NextNeg ==
  \/ init_app("A", TRUE)
  \/ Registered("A") = 0 /\ register_resource("A", "default", "Foo", "/a", NoEndpoint)
  \/ \E reg \in NegRegistrations : representation("A", reg[1], reg[2])
  \/ Serve(NegRequests, NegBehaviours, {"GET"})
  \/ Deliver

SpecNeg == InitNeg /\ [][NextNeg]_vars

-----------------------------------------------------------------------------
(* Two Apis on one application: specification SpecOwn *)

OwnPaths == {"/a", "/i/1", "/j/1", "/f/x", "/zzz"}
\* The add_resource calls made: resource class, url, endpoint= argument.
OwnRegistrations ==
  { <<"Foo", "/a", NoEndpoint>>,
    <<"Foo", "/i/<id>", NoEndpoint>>,
    <<"Bar", "/j/<id>", NoEndpoint>>,
    <<"Foo", "/f/<p:[a-z/]+>", NoEndpoint>>,
    <<"Bar", "/a", <<"items", 1>>>>,
    <<"Bar", "/i/<id>", <<"foo", 1>>>> }

OwnRequests ==
  { Request(path, method, << >>) :
      path \in OwnPaths, method \in Methods }
OwnBehaviours ==
  { Raise(PlainExc("ValueError", 0, "bad value")),
    Return(Raw("t2", Body(Absent, "v"), 201, {})) }

InitOwn ==
  /\ Constructed
  /\ default_mediatype = [a \in ApiIds |-> "application/json"]
  /\ catch_all_404s \in [ApiIds -> BOOLEAN]
  /\ ~catch_all_404s["B"]
  /\ serve_challenge_on_401 = [a \in ApiIds |-> FALSE]
  /\ ERROR_404_HELP = "unset"

NextOwn ==
  \/ \E a \in ApiIds, add_specs \in BOOLEAN : ~app[a] /\ init_app(a, add_specs)
  \/ \E a \in ApiIds, reg \in OwnRegistrations :
       MayRegister /\ register_resource(a, "default", reg[1], reg[2], reg[3])
  \/ Serve(OwnRequests, OwnBehaviours, Methods)
  \/ Deliver

SpecOwn == InitOwn /\ [][NextOwn]_vars

-----------------------------------------------------------------------------
(* The output wrapper of one Api: specification SpecOut *)

OutAccepts ==
  { << >> } \cup { << [type |-> t, q |-> MaxQ] >> :
                     t \in {"application/json", "application/xml", "image/png", "*/*"} }
OutRequests == { Request("/a", "GET", accept) : accept \in OutAccepts }

\* What the resource returns: a body alone, a 1-, 2- or 3-tuple, or a
\* response object it built itself; or it raises.
OutHeaders == {"Content-Length", "X-Custom"}
OutRaws ==
  { Raw(shape, Body(Absent, "v"), 0, {}) : shape \in {"bare", "t1"} }
    \cup { Raw("t2", Body(Absent, "v"), code, {}) : code \in {201, 404} }
    \cup { Raw("t3", Body(Absent, "v"), code, headers) :
             code \in {201, 404}, headers \in SUBSET OutHeaders }
OutResponses ==
  { Response(302, NoBody, "text/html", {"Location"}, "resource"),
    Response(200, Body(Absent, "png"), "image/png", {"Content-Length"}, "resource") }
OutBehaviours ==
  { Return(raw) : raw \in OutRaws }
    \cup { ReturnResponse(resp) : resp \in OutResponses }
    \cup { Raise(PlainExc("ValueError", 0, "bad value")) }

OutRegistrations ==
  { <<"application/json", "output_alt">>, <<"application/xml", "output_xml">> }

InitOut ==
  /\ Constructed
  /\ default_mediatype \in [ApiIds -> {"application/json", "text/plain", None}]
  /\ default_mediatype["B"] = "application/json"
  /\ catch_all_404s = [a \in ApiIds |-> FALSE]
  /\ serve_challenge_on_401 = [a \in ApiIds |-> FALSE]
  /\ ERROR_404_HELP = "unset"

NextOut ==
  \/ init_app("A", TRUE)
  \/ Registered("A") = 0 /\ register_resource("A", "default", "Foo", "/a", NoEndpoint)
  \/ \E reg \in OutRegistrations : representation("A", reg[1], reg[2])
  \/ Serve(OutRequests, OutBehaviours, {"GET"})
  \/ Deliver

SpecOut == InitOut /\ [][NextOut]_vars

-----------------------------------------------------------------------------
(* Registrations of one Api before and after init_app: specification SpecReg *)

\* The register_resource calls made, none with an explicit endpoint: the
\* same class at two urls, and two classes at the same url.
RegRegistrations == { <<"Foo", "/a">>, <<"Foo", "/b">>, <<"Bar", "/a">> }

InitReg ==
  /\ Constructed
  /\ default_mediatype = [a \in ApiIds |-> "application/json"]
  /\ catch_all_404s = [a \in ApiIds |-> FALSE]
  /\ serve_challenge_on_401 = [a \in ApiIds |-> FALSE]
  /\ ERROR_404_HELP = "unset"

NextReg ==
  \/ \E add_specs \in BOOLEAN :
        Len(error_handler) < 2 /\ init_app("A", add_specs)
  \/ \E reg \in RegRegistrations :
        /\ Named("A") <= MaxResources
        /\ register_resource("A", "default", reg[1], reg[2], NoEndpoint)
  \/ Serve({ Request(path, method, << >>) :
               path \in {"/a", "/b"}, method \in {"GET", "POST"} },
           { Return(Raw("bare", Body(Absent, "v"), 0, {})) }, {"GET", "POST"})
  \/ Deliver

SpecReg == InitReg /\ [][NextReg]_vars

-----------------------------------------------------------------------------
(* Namespaces attached to one Api: specification SpecNs *)

\* The add_namespace calls made: the namespace and the path given, None
\* when none is given.
NsAttachments ==
  { <<"apples", None>>, <<"apples", "/fruit">>, <<"apples", "">>, <<"pears", None>> }
\* The handler a namespace registers.
NsHandler(n) == IF n = "apples" THEN "h_nomsg" ELSE "h_401"
\* The bodies posted.
NsData ==
  { [name |-> Str("John Doe"), age |-> Num(15)],
    [name |-> Str("15"), age |-> Num(0)] }
\* The error handlers registered on the namespaces.
NsRegistrations ==
  { <<"apples", "CustomError">>, <<"apples", "ParseError">>, <<"pears", "CustomError">> }
NsRequests ==
  { post_json(path, data) :
      path \in {"/apples/validation/", "/fruit/validation/", "/validation/"},
      data \in NsData }
NsBehaviours ==
  { Return(Raw("bare", Body(Absent, "v"), 0, {})),
    Raise(PlainExc("CustomError", 0, "boom")) }

InitNs ==
  /\ Constructed
  /\ default_mediatype = [a \in ApiIds |-> "application/json"]
  /\ catch_all_404s = [a \in ApiIds |-> FALSE]
  /\ serve_challenge_on_401 = [a \in ApiIds |-> FALSE]
  /\ ERROR_404_HELP = "unset"

NextNs ==
  \/ init_app("A", TRUE)
  \/ errorhandler("A", "CustomError", "h_conflict")
  \/ \E reg \in NsRegistrations : Namespace_errorhandler(reg[1], reg[2], NsHandler(reg[1]))
  \/ /\ Named("A") < MaxResources
     /\ \E att \in NsAttachments : add_namespace("A", att[1], att[2])
  \/ /\ Named("A") < MaxResources
     /\ Len(ns["apples"].resources) < MaxResources - 1
     /\ Namespace_add_resource("apples", "Bar", "/validation/")
  \/ Serve(NsRequests, NsBehaviours, {"POST"})
  \/ Deliver

SpecNs == InitNs /\ [][NextNs]_vars

-----------------------------------------------------------------------------
(* Requests in flight together: specification SpecAsync *)

AsyncRequests ==
  { Request("/a", "GET", accept) :
      accept \in { << >>, << [type |-> "image/png", q |-> MaxQ] >> } }
AsyncBehaviours ==
  { Return(Raw("bare", Body(Absent, "v"), 0, {})),
    Return(Raw("t3", Body(Absent, "v"), 404, {"X-Custom"})),
    ReturnResponse(Response(302, NoBody, "text/html", {"Location"}, "resource")),
    Raise(PlainExc("ValueError", 0, "bad value")) }

InitAsync ==
  /\ Constructed
  /\ default_mediatype = [a \in ApiIds |-> "application/json"]
  /\ catch_all_404s = [a \in ApiIds |-> FALSE]
  /\ serve_challenge_on_401 = [a \in ApiIds |-> FALSE]
  /\ ERROR_404_HELP = "unset"

NextAsync ==
  \/ init_app("A", TRUE)
  \/ Registered("A") = 0 /\ register_resource("A", "default", "Foo", "/a", NoEndpoint)
  \/ \E s \in Slots, request \in AsyncRequests, beh \in AsyncBehaviours,
        awaits \in 0..MaxAwaits : Call(s, request, beh, awaits)
  \/ \E s \in Slots : Resume(s)
  \/ \E s \in Slots : Send(s)

\* The event loop runs a wrapper again once what it awaits is ready.  What
\* the request of slot r2 awaits becomes ready; nothing is assumed of r1.
SpecAsync == InitAsync /\ [][NextAsync]_vars /\ WF_vars(Resume("r2"))

-----------------------------------------------------------------------------
(* Claims on error resolution, checked under Spec *)

\* The code and headers a handler's return value unpacks to in handle_error.
HandlerGives(h, e) == unpack(HandlerResult(h, e), 500)

\* Whether rendering an error response of this code succeeds for the request
\* in `last`: make_response neither signals Not Acceptable nor ServerError.
Renders(a, code) ==
  make_response(a, last.req, NoBody, code, {}, FallbackMediatype(a, code)).ok

\* C1: an error claimed by an Api is resolved by exactly one rule, the first
\* that matches of (1) a handler registered for the error's exact class,
\* (2) the error is a SanicException, (3) the default handler, (4) the generic
\* 500; the status of the response is the one that rule gives.  A handler
\* registered for a base class is not rule 1 for a subclass, and a
\* SanicException without an exact handler does not reach the default handler.
C1_ResolutionOrder ==
  last.by # None =>
    LET a == last.by
        e == last.err
        exact == error_handlers[a][e.cls] # None
        expected == IF exact THEN 1
                    ELSE IF IsSanicException(e.cls) THEN 2
                    ELSE IF default_error_handler[a] # None THEN 3
                    ELSE 4
    IN /\ last.rule = expected
       /\ last.ok =>
            last.resp.status =
              CASE expected = 1 -> HandlerGives(error_handlers[a][e.cls], e).code
                [] expected = 2 -> e.status_code
                [] expected = 3 -> HandlerGives(default_error_handler[a], e).code
                [] OTHER -> 500
       /\ (last.ok /\ expected = 2 /\ ~e.has_data) =>
            last.resp.body.message =
              (IF e.message # Absent THEN e.message ELSE StatusPhrase(e.status_code))

\* C1 witness: a SanicException with no handler for its class is answered
\* from its own status code although a default handler is registered.
C1_Witness ==
  /\ last.by = "A" /\ last.ok
  /\ last.err.cls = "InvalidUsage"
  /\ error_handlers["A"]["InvalidUsage"] = None
  /\ default_error_handler["A"] # None
  /\ last.rule = 2 /\ last.resp.status = 400

\* C1 witness for the exact-class rule: a SubError is not given the handler
\* registered for its base class CustomError.
C1_WitnessSubclass ==
  /\ last.by = "A" /\ last.ok
  /\ last.err.cls = "SubError"
  /\ error_handlers["A"]["CustomError"] # None
  /\ last.rule = 4

\* C2 as claimed: for an exception class with a registered handler, the
\* response has exactly the status code and the body the handler returned.
C2_Original ==
  (/\ last.by # None
   /\ error_handlers[last.by][last.err.cls] # None
   /\ ~HandlerRaises(error_handlers[last.by][last.err.cls])) =>
    LET u == HandlerGives(error_handlers[last.by][last.err.cls], last.err)
    IN last.ok /\ last.resp.status = u.code /\ last.resp.body = u.data

\* C2 as amended: when handle_error returns a response, its status is the
\* handler's code and its body is the error's 'data' attribute when it has
\* one, else the handler's body with 'message' set to str(e) when the
\* handler gave none.  handle_error returns a response unless the code is
\* 404 while ERROR_404_HELP is not disabled, the code is 401 while
\* serve_challenge_on_401 is set, or content negotiation fails; then the
\* client gets no response of the Api.
C2_HandlerResponse ==
  (/\ last.by # None
   /\ error_handlers[last.by][last.err.cls] # None
   /\ ~HandlerRaises(error_handlers[last.by][last.err.cls])) =>
    LET a == last.by
        e == last.err
        u == HandlerGives(error_handlers[a][e.cls], e)
        fails == \/ u.code = 404 /\ ERROR_404_HELP # "False"
                 \/ u.code = 401 /\ serve_challenge_on_401[a]
                 \/ ~Renders(a, u.code)
    IN IF fails THEN ~last.ok
       ELSE /\ last.ok
            /\ last.resp.status = u.code
            /\ last.resp.body =
                 (IF e.has_data THEN e.data
                  ELSE IF u.data.message = Absent
                       THEN Body(e.text, u.data.detail) ELSE u.data)

\* C2 witness: a handler's body without 'message' is answered with str(e)
\* as its message.
C2_Witness ==
  /\ last.by = "A" /\ last.ok
  /\ last.err.cls = "CustomError" /\ ~last.err.has_data
  /\ error_handlers["A"]["CustomError"] = "h_nomsg"
  /\ last.resp.status = 400
  /\ last.resp.body = Body("boom", "d")

\* C3 as claimed: when the Api claims the error and handle_error raises,
\* ApiErrorHandler.response returns what the host's original handler gives
\* for the request and the error first raised.
C3_FallsBackToHost ==
  (last.by # None /\ ~handle_error(last.by, last.req, last.err).ok) =>
    (last.ok /\ last.resp = HostResponse(last.err))

\* C7 as claimed: every response the Api's error handling sends has a body
\* with a 'message' field.
C7_MessageAlways ==
  (last.by # None /\ last.ok) => last.resp.body.message # Absent

\* C9 as claimed: an error with no handler for its class, that is no
\* SanicException, with no default handler, is answered 500 with the body
\* {"message": "Internal Server Error"}.
C9_Original ==
  (/\ last.by # None
   /\ error_handlers[last.by][last.err.cls] = None
   /\ ~IsSanicException(last.err.cls)
   /\ default_error_handler[last.by] = None) =>
    (/\ last.ok
     /\ last.resp.status = 500
     /\ last.resp.body = Body("Internal Server Error", Absent))

\* C9 as amended: such an error is answered 500 whenever content negotiation
\* succeeds, with the body {"message": "Internal Server Error"} when the
\* error has no 'data' attribute and with the error's data as the body when
\* it has one; when negotiation fails the client gets no response of the Api.
C9_Generic500 ==
  (/\ last.by # None
   /\ error_handlers[last.by][last.err.cls] = None
   /\ ~IsSanicException(last.err.cls)
   /\ default_error_handler[last.by] = None) =>
    IF Renders(last.by, 500)
    THEN /\ last.ok
         /\ last.resp.status = 500
         /\ last.resp.body = (IF last.err.has_data THEN last.err.data
                              ELSE Body("Internal Server Error", Absent))
    ELSE ~last.ok

\* C9 witness: a ValueError, unknown to the registry, is answered with the
\* generic 500 body whatever its text.
C9_Witness ==
  /\ last.by = "A" /\ last.ok
  /\ last.err.cls = "ValueError" /\ last.err.text = "bad value"
  /\ default_error_handler["A"] = None
  /\ last.resp.status = 500
  /\ last.resp.body = Body("Internal Server Error", Absent)

-----------------------------------------------------------------------------
(* Claims on content negotiation, checked under SpecNeg *)

\* No media range of the request's Accept header matches a registered key
\* (an absent header matches nothing).
NoAcceptMatch(a) ==
  \A i \in 1..Len(last.req.accept) :
    FirstKeyMatching(representations[a], last.req.accept[i].type) = None

C6_WitnessUnregisteredDefault ==
  /\ last.route.api = "A"
  /\ default_mediatype["A"] = "application/xml"
  /\ "application/xml" \notin RepKeys(representations["A"])
  /\ Len(last.req.accept) = 1 /\ last.req.accept[1].type = "image/png"
  /\ ~last.ok /\ last.err = ServerErrorNone

\* C10: when the Accept header lists a registered media type M with a weight
\* higher than that of every other entry, the response is rendered with the
\* function registered for M and carries M as its content type.
C10_HighestWeightRenders ==
  last.route.api # None =>
    LET a == last.route.api
        accept == last.req.accept
    IN \A i \in 1..Len(accept) :
         (/\ accept[i].type \in RepKeys(representations[a])
          /\ \A j \in 1..Len(accept) : j # i => accept[j].q < accept[i].q) =>
           /\ last.err = NoExc /\ last.ok
           /\ last.resp.rendered_by = RepFn(representations[a], accept[i].type)
           /\ last.resp.content_type = accept[i].type

\* C10 witness: application/xml, registered after application/json and
\* listed second with the higher weight, renders the response although
\* application/json is the default and is listed first.
C10_Witness ==
  /\ last.route.api = "A" /\ last.ok
  /\ default_mediatype["A"] = "application/json"
  /\ Len(last.req.accept) = 2
  /\ last.req.accept[1].type = "application/json"
  /\ last.req.accept[2].type = "application/xml"
  /\ last.req.accept[1].q < last.req.accept[2].q
  /\ last.resp.rendered_by = "output_xml"

-----------------------------------------------------------------------------
(* Claims on ownership, checked under SpecOwn *)

\* The endpoints of the routes whose rule matches a path.
EndpointsAt(url) ==
  {r.name : r \in {x \in routes_static : x.uri = url}}
    \cup {routes_dynamic[i].name :
            i \in {k \in 1..Len(routes_dynamic) : UriMatches(routes_dynamic[k].uri, url)}}
    \cup {routes_always_check[i].name :
            i \in {k \in 1..Len(routes_always_check) :
                     UriMatches(routes_always_check[k].uri, url)}}

Hooked == {error_handler[i] : i \in 1..Len(error_handler)}

\* C4 as claimed: the endpoint sets of the two Apis are disjoint, and an
\* error raised on a route one Api registered is never claimed by the other.
C4_DisjointOwnership ==
  /\ endpoints["A"] \cap endpoints["B"] = {}
  /\ (last.route.api # None /\ last.by # None) => last.by = last.route.api

\* C5 as claimed: for a path that matches no route, with ERROR_404_HELP
\* unset, an installed Api with catch_all_404s answers 404 with a body that
\* has a 'message' field; when no installed Api has catch_all_404s the
\* response is the host's.
C5_Unmatched404 ==
  (last.err.cls = "NotFound" /\ EndpointsAt(last.req.path) = {}
   /\ ERROR_404_HELP = "unset") =>
    IF \E a \in Hooked : catch_all_404s[a]
    THEN /\ last.by # None /\ catch_all_404s[last.by]
         /\ last.ok
         /\ last.resp.status = 404
         /\ last.resp.body.message # Absent
    ELSE last.by = None /\ last.ok /\ last.resp = HostResponse(last.err)

\* C8 as claimed: for a 405 the probe lets no exception escape
\* _has_fr_route, and an Api claims the error exactly when the route the
\* path matches has an endpoint the Api owns.
C8_ProbeClaims ==
  (last.err.cls = "InvalidUsage" /\ last.err.status_code = 405) =>
    /\ last.ok
    /\ last.by # None => EndpointsAt(last.req.path) \cap endpoints[last.by] # {}
    /\ last.by = None =>
         \A a \in Hooked : EndpointsAt(last.req.path) \cap endpoints[a] = {}

\* C4, the failing case: Api A registered Foo at /a and Api B registered Foo
\* at another rule, and the error raised in A's resource is claimed by B.
C4_OtherApiClaims ==
  /\ last.route.api = "A" /\ last.route.uri = "/a"
  /\ \E i \in 1..Len(routes_dynamic) : routes_dynamic[i].api = "B"
  /\ last.err.cls = "ValueError"
  /\ last.by = "B"

\* C8, the case in which every probe fails: DELETE or POST on /i/1 served by
\* Foo (GET) while Bar (POST, DELETE) is the last route of the bucket.
C8_ProbeEscapes ==
  /\ last.err.status_code = 405
  /\ last.req.path = "/i/1"
  /\ ~last.ok /\ last.exc.cls = "InvalidUsage"

\* C3, the failing case: the handler registered for CustomError raises, and
\* the exception that leaves ApiErrorHandler.response is UnboundLocalError.
C3_HandlerFailureEscapes ==
  /\ last.by = "A"
  /\ last.err.cls = "CustomError"
  /\ error_handlers["A"]["CustomError"] = "h_raise"
  /\ ~last.ok /\ last.exc.cls = "UnboundLocalError"

\* C5, the failing case: catch_all_404s is set, ERROR_404_HELP is unset, the
\* path matches no route, and the client gets no response of the Api.
C5_Help404Escapes ==
  /\ last.err.cls = "NotFound" /\ last.req.path = "/zzz"
  /\ ERROR_404_HELP = "unset"
  /\ last.by = "A" /\ catch_all_404s["A"]
  /\ ~last.ok /\ last.exc.cls = "UnboundLocalError"

\* C7, the failing case: the error carries a 'data' attribute without a
\* 'message' key, and the body of the response is that data.
C7_BodyWithoutMessage ==
  /\ last.by = "A" /\ last.ok
  /\ last.err.has_data /\ last.err.data.message = Absent
  /\ last.resp.body = last.err.data
  /\ last.resp.body.message = Absent

-----------------------------------------------------------------------------
(* Claims on the output wrapper and on rendering *)

C11_WitnessText ==
  /\ last.route.api = "A" /\ last.req.accept = << >>
  /\ default_mediatype["A"] = "text/plain"
  /\ "text/plain" \notin RepKeys(representations["A"])
  /\ last.ok /\ last.resp.rendered_by = "text"

\* The code and the headers a resource's result supplies, by its shape.
SuppliedCode(raw) == IF raw.shape \in {"t2", "t3"} THEN raw.code ELSE 200
SuppliedHeaders(raw) == IF raw.shape = "t3" THEN raw.headers ELSE {}

C12_WitnessBare ==
  /\ last.route.api = "A" /\ last.beh.kind = "return"
  /\ last.beh.raw.shape = "bare"
  /\ last.ok /\ last.resp.status = 200 /\ last.resp.headers = {}

\* C13: a response make_response returns carries as Content-Type the media
\* type negotiation resolved, for a registered representation (whatever type
\* its function declares) and for the built-in text renderer; a body alone
\* requested with Accept: application/json is answered 200 with Content-Type
\* application/json.
C13_ContentType ==
  (last.ok /\ last.resp.rendered_by \notin {None, "host", "resource"}) =>
    LET a == IF last.by # None THEN last.by ELSE last.route.api
        reps == representations[a]
    IN /\ IF last.resp.content_type \in RepKeys(reps)
          THEN last.resp.rendered_by = RepFn(reps, last.resp.content_type)
          ELSE last.resp.content_type = "text/plain" /\ last.resp.rendered_by = "text"
       /\ last.err = NoExc =>
            last.resp.content_type =
              best_match_accept_mimetype(last.req, reps, default_mediatype[a])
       /\ (/\ last.err = NoExc /\ last.beh.raw.shape = "bare"
           /\ Len(last.req.accept) = 1
           /\ last.req.accept[1].type = "application/json") =>
            /\ last.resp.status = 200
            /\ last.resp.body = last.beh.raw.data
            /\ last.resp.content_type = "application/json"

\* C13 witness: application/json is rendered by a user's function that
\* declares text/html, and the response still says application/json.
C13_Witness ==
  /\ last.route.api = "A" /\ last.beh.kind = "return" /\ last.beh.raw.shape = "bare"
  /\ Len(last.req.accept) = 1 /\ last.req.accept[1].type = "application/json"
  /\ last.ok /\ last.resp.status = 200
  /\ last.resp.rendered_by = "output_alt"
  /\ OwnType(last.resp.rendered_by) = "text/html"
  /\ last.resp.content_type = "application/json"

\* C13 witness for the built-in renderer: Content-Type is text/plain.
C13_WitnessText ==
  /\ last.route.api = "A" /\ last.ok
  /\ last.resp.rendered_by = "text"
  /\ last.resp.content_type = "text/plain"

\* C16: when the resource returns a response object the client gets that
\* object, with its status, headers, body and content type as they were,
\* whatever the Accept header and the registry; no error hook is involved.
C16_ResponsePassthrough ==
  (last.route.api # None /\ last.beh.kind = "response") =>
    /\ last.err = NoExc /\ last.ok /\ last.by = None
    /\ last.resp = last.beh.resp

\* C16 witness: a redirect built by the resource passes through although
\* the request accepts only image/png and the Api has no default media type.
C16_Witness ==
  /\ last.route.api = "A" /\ last.beh.kind = "response"
  /\ default_mediatype["A"] = None
  /\ Len(last.req.accept) = 1 /\ last.req.accept[1].type = "image/png"
  /\ last.ok /\ last.resp.status = 302 /\ last.resp.rendered_by = "resource"

-----------------------------------------------------------------------------
(* Claims on the built-in handlers and on 401, checked under Spec *)

C14_WitnessOverridden ==
  /\ last.by = "A" /\ last.ok
  /\ last.err.cls = "ParseError"
  /\ error_handlers["A"]["ParseError"] = "h_conflict"
  /\ last.resp.status = 409

\* C15 as claimed: when an owned error resolves to 401, the client gets the
\* Api's 401 response, with a WWW-Authenticate header when
\* serve_challenge_on_401 is set and without it otherwise.
C15_Challenge401 ==
  (/\ last.by # None
   /\ ErrorDefaults(last.by, last.err).code = 401
   /\ ~(ErrorRule(last.by, last.err) \in {1, 3}
        /\ HandlerRaises(IF ErrorRule(last.by, last.err) = 1
                         THEN error_handlers[last.by][last.err.cls]
                         ELSE default_error_handler[last.by]))
   /\ Renders(last.by, 401)) =>
    /\ last.ok
    /\ last.resp.status = 401
    /\ ("WWW-Authenticate" \in last.resp.headers) = serve_challenge_on_401[last.by]

\* C15, the failing case: serve_challenge_on_401 is set, the handler returns
\* 401, and the client gets no response of the Api.
C15_ChallengeEscapes ==
  /\ last.by = "A" /\ serve_challenge_on_401["A"]
  /\ last.err.cls = "CustomError"
  /\ error_handlers["A"]["CustomError"] = "h_401"
  /\ Renders("A", 401)
  /\ ~last.ok /\ last.exc.cls = "UnboundLocalError"

\* C15, the half that holds: with the flag off the 401 has no challenge.
C15_NoChallenge ==
  /\ last.by = "A" /\ ~serve_challenge_on_401["A"]
  /\ last.ok /\ last.resp.status = 401
  /\ "WWW-Authenticate" \notin last.resp.headers

-----------------------------------------------------------------------------
(* Claims on awaiting, checked under SpecAsync *)

\* An answered request whose resource returned a coroutine has the outcome
\* that the same request has when the resource returns the value at once,
\* and no coroutine is left unawaited.
AwaitedThrough ==
  \A s \in Slots :
     tasks[s].state = "done" =>
       /\ ~iscoroutine(tasks[s].resp)
       /\ Answer(s) = HandleRequest(tasks[s].req, tasks[s].resp.beh, "GET")

\* C17: the wrapper gives the same response for a resource that returns a
\* value at once and for one that returns a coroutine, nested or not, of
\* that value: it awaits until the result is no coroutine.  A request that
\* stays suspended does not keep the wrapper of another request from
\* completing: the request of slot r2, once suspended, is answered, whatever
\* slot r1 does.
C17_AwaitsToValue ==
  /\ []AwaitedThrough
  /\ (tasks["r2"].state = "suspended") ~> (tasks["r2"].state = "done")

\* Slot r1 is suspended while slot r2, after MaxAwaits suspensions, has its
\* rendered answer.
C17_Witness ==
  /\ tasks["r1"].state = "suspended"
  /\ tasks["r2"].state = "done"
  /\ tasks["r2"].awaited = MaxAwaits
  /\ Answer("r2").ok
  /\ Answer("r2").resp.status = 404
  /\ Answer("r2").resp.rendered_by = "output_json"

-----------------------------------------------------------------------------
(* Claims on what requests leave alone, checked under SpecNeg *)

\* A step that changes a representation registry adds or replaces one entry
\* of one Api and keeps every other entry.
RegistryStep ==
  \E a \in ApiIds : \E k \in RepKeys(representations'[a]) :
     /\ \A b \in ApiIds \ {a} : representations'[b] = representations[b]
     /\ RepKeys(representations'[a]) = RepKeys(representations[a]) \cup {k}
     /\ \A j \in RepKeys(representations[a]) \ {k} :
          RepFn(representations'[a], j) = RepFn(representations[a], j)

\* A step that starts or ends the handling of a request.
RequestStep == last' # last \/ tasks' # tasks

-----------------------------------------------------------------------------
(* Claims on namespaces, checked under SpecNs *)

\* C19: a call of add_namespace(ns) that returns leaves the Api's
\* error-handler registry mapping every exception class of ns's registry to
\* ns's handler, whatever handler the Api held for it (built-in or
\* user-registered), and every other class as before; a later
\* errorhandler(exception) call sets that class alone: the last
\* registration made for a class is the one held.
C19_NamespaceHandlersMerged ==
  [][ /\ \A att \in NsAttachments :
           add_namespace("A", att[1], att[2])
             /\ ~Attach("A", att[1], att[2]).router.exists
           => \A c \in ExcClasses :
                error_handlers'["A"][c] =
                  IF ns[att[1]].error_handlers[c] # None
                  THEN ns[att[1]].error_handlers[c]
                  ELSE error_handlers["A"][c]
      /\ errorhandler("A", "CustomError", "h_conflict")
           => \A c \in ExcClasses :
                error_handlers'["A"][c] =
                  IF c = "CustomError" THEN "h_conflict" ELSE error_handlers["A"][c]
    ]_vars

\* The namespace apples is attached; its handler has replaced the built-in
\* one for ParseError and answers a CustomError raised in its route, and the
\* built-in handler for MaskError is still held.
C19_Witness ==
  /\ Attached("A", "apples")
  /\ error_handlers["A"]["ParseError"] = NsHandler("apples")
  /\ error_handlers["A"]["MaskError"] = "mask_error_handler"
  /\ last.err.cls = "CustomError"
  /\ last.by = "A" /\ last.ok /\ last.resp.status = 400

\* Both namespaces are attached and register a handler for CustomError;
\* the Api holds the handler of pears.
C19_WitnessLastWins ==
  /\ Attached("A", "apples") /\ Attached("A", "pears")
  /\ ns["apples"].error_handlers["CustomError"] = NsHandler("apples")
  /\ error_handlers["A"]["CustomError"] = NsHandler("pears")

\* The path add_namespace was given for namespace n on Api a, else the
\* namespace's own path.
GivenPath(a, n) == IF ns_paths[a][n] # None THEN ns_paths[a][n] ELSE ns[n].path

\* Every route declared on a namespace attached to the bound Api A is a
\* route of the application at prefix[n] + url, owned by A, and a JSON body
\* posted there reaches the resource, which reads it back as its payload.
Routed(prefix) ==
  \A n \in NsIds :
     Attached("A", n) /\ app["A"] =>
       \A i \in DOMAIN ns[n].resources :
          LET url == prefix[n] \o ns[n].resources[i].url
          IN /\ \E r \in routes_static :
                  r.uri = url /\ r.api = "A" /\ r.name \in endpoints["A"]
             /\ last.req.path = url /\ last.req.method = "POST" =>
                  /\ last.route.api = "A" /\ last.beh # NoBeh
                  /\ \A data \in NsData :
                       last.req.body = dumps(data) => payload(last.req) = data

\* C20: a route declared on a namespace after add_namespace attached it is
\* registered with the Api and reachable at the path given to add_namespace
\* (the namespace's own path when none was given) + the route's url, and
\* its handler's payload equals the JSON body posted.
C20_RouteAtGivenPath == Routed([n \in NsIds |-> GivenPath("A", n)])

\* The namespace apples was attached with the path '' and then given a
\* route; a post to '' + url finds no route.
C20_EmptyPathIgnored ==
  /\ Attached("A", "apples") /\ app["A"]
  /\ ns_paths["A"]["apples"] = ""
  /\ ns["apples"].resources # << >>
  /\ last.req.path = "/validation/"
  /\ last.err.cls = "NotFound"

\* With the prefix Api.ns_urls computes, which passes over an empty path,
\* the routes are where the claim puts them.
C20_RouteAtNonEmptyPath == Routed([n \in NsIds |-> ns_urls(ns_paths, "A", n, "")])

\* A post to /fruit/validation/, the path given + url, has reached the
\* resource, whose payload is the object posted.
C20_WitnessGivenPath ==
  /\ ns_paths["A"]["apples"] = "/fruit"
  /\ last.req.path = "/fruit/validation/"
  /\ last.route.api = "A" /\ last.ok /\ last.resp.status = 200
  /\ payload(last.req) = [name |-> Str("15"), age |-> Num(0)]

-----------------------------------------------------------------------------
(* Claims on registration, checked under SpecReg *)

\* C21: default_endpoint(resource, namespace) returns, and the name it
\* returns is not in the Api's endpoint set; so every register_resource call
\* without an explicit endpoint adds a new name to the set, and the names of
\* the Api's routes and of its deferred registrations are pairwise distinct,
\* also when one class is registered several times.
C21_DistinctEndpoints ==
  /\ [](/\ \A reg \in RegRegistrations :
             default_endpoint("A", reg[1], "default") \notin endpoints["A"]
        /\ \A r1, r2 \in routes_static :
             r1.api = "A" /\ r2.api = "A" /\ r1 # r2 => r1.name # r2.name
        /\ \A i, j \in DOMAIN resources["A"] :
             i # j => resources["A"][i].endpoint # resources["A"][j].endpoint)
  /\ [][ \A reg \in RegRegistrations :
           register_resource("A", "default", reg[1], reg[2], NoEndpoint)
           => /\ default_endpoint("A", reg[1], "default") \in endpoints'["A"]
              /\ Cardinality(endpoints'["A"]) = Cardinality(endpoints["A"]) + 1
       ]_vars

\* The class Foo has been registered three times: two routes, foo and
\* foo_2, and a third name, foo_3, are held.
C21_Witness ==
  /\ {<<"foo", 1>>, <<"foo", 2>>, <<"foo", 3>>} \subseteq endpoints["A"]
  /\ \E r1, r2 \in routes_static :
       /\ r1.api = "A" /\ r1.name = <<"foo", 1>>
       /\ r2.api = "A" /\ r2.name = <<"foo", 2>>

\* The routes of Api A that carry the endpoint name e.
RoutesNamed(e) == {r \in routes_static : r.api = "A" /\ r.name = e}

\* C22 as stated, read by resource class so that giving the same class
\* twice at one url counts as one resource: a class given to
\* register_resource (an endpoint of its name is in the ownership set) has
\* a route once the Api is bound, and before that a deferred registration
\* and no route; no endpoint has two routes.
C22_Original ==
  /\ \A e \in endpoints["A"] : Cardinality(RoutesNamed(e)) <= 1
  /\ \A c \in {"Foo", "Bar"} :
       (\E e \in endpoints["A"] : e[1] = camel_to_dash(c)) =>
         IF app["A"]
         THEN \E r \in routes_static : r.api = "A" /\ r.name[1] = camel_to_dash(c)
         ELSE /\ \E i \in DOMAIN resources["A"] : resources["A"][i].resource = c
              /\ \A r \in routes_static : r.api # "A"

\* The url of the deferred registration d is routed to another endpoint.
C22_Conflicting(d) ==
  \E r \in routes_static : r.uri = d.url /\ r.name # d.endpoint

\* What holds of the registrations in every state: no endpoint has two
\* routes; every route and every deferred registration of the Api has its
\* endpoint in the ownership set; an unbound Api has no route and one
\* deferred registration per endpoint; once _init_app has run its loop, a
\* deferred registration has its route unless it, or one deferred before
\* it, met a url that was routed already.
C22_Registered ==
  /\ \A e \in endpoints["A"] : Cardinality(RoutesNamed(e)) <= 1
  /\ \A r \in routes_static : r.api = "A" => r.name \in endpoints["A"]
  /\ \A i \in DOMAIN resources["A"] : resources["A"][i].endpoint \in endpoints["A"]
  /\ ~app["A"] =>
       \A e \in endpoints["A"] :
          /\ RoutesNamed(e) = {}
          /\ Cardinality({i \in DOMAIN resources["A"] :
                            resources["A"][i].endpoint = e}) = 1
  /\ (\E k \in DOMAIN error_handler : error_handler[k] = "A") =>
       \A i \in DOMAIN resources["A"] :
          (\A j \in 1..i : ~C22_Conflicting(resources["A"][j]))
          => \E r \in RoutesNamed(resources["A"][i].endpoint) :
               r.uri = resources["A"][i].url

\* C22, amended: a resource given to register_resource is added to the
\* application's routes exactly once, at once when the Api is bound and
\* otherwise by the loop of init_app, unless its url is routed already: then
\* add_route raises RouteExists, the resource is not added, and the loop of
\* init_app leaves the deferred registrations after it unadded as well.  In
\* every case the endpoint is in the ownership set from the
\* register_resource call on, and handling a request adds or changes no
\* route: the wrapper is the one put on the route at registration.
C22_AddedOnceUnlessRouteExists ==
  /\ []C22_Registered
  /\ [][ /\ \A reg \in RegRegistrations :
             register_resource("A", "default", reg[1], reg[2], NoEndpoint)
             => /\ default_endpoint("A", reg[1], "default") \in endpoints'["A"]
                /\ routes_static' =
                     IF app["A"] /\ reg[2] \notin routes_all(TheRouter)
                     THEN routes_static
                            \cup {Route(reg[2], ResourceMethods(reg[1]),
                                        default_endpoint("A", reg[1], "default"), "A")}
                     ELSE routes_static
                /\ resources'["A"] =
                     IF app["A"] THEN resources["A"]
                     ELSE Append(resources["A"],
                                 Registration(reg[1], reg[2],
                                              default_endpoint("A", reg[1], "default")))
         /\ last' # last => UNCHANGED <<routes_static, endpoints, resources>>
       ]_vars

\* The Api is bound; a resource deferred before init_app and one registered
\* after it each have their one route, and a request to the deferred one is
\* answered through the Api's wrapper.
C22_Witness ==
  /\ app["A"]
  /\ Len(resources["A"]) = 1
  /\ Cardinality(RoutesNamed(resources["A"][1].endpoint)) = 1
  /\ \E e \in endpoints["A"] :
       /\ e # resources["A"][1].endpoint /\ e # SpecsEndpoint("A")
       /\ Cardinality(RoutesNamed(e)) = 1
  /\ last.req.path = resources["A"][1].url
  /\ last.route.api = "A" /\ last.ok /\ last.resp.rendered_by = "output_json"

\* Two resources were deferred at the same url; after init_app the second
\* has its endpoint in the ownership set and no route.
C22_WitnessRefused ==
  /\ app["A"]
  /\ Len(resources["A"]) = 2
  /\ resources["A"][1].url = resources["A"][2].url
  /\ RoutesNamed(resources["A"][2].endpoint) = {}
  /\ resources["A"][2].endpoint \in endpoints["A"]

=============================================================================
